---- MODULE Spec2Model ----
(***************************************************************************)
(* DoRA layers of src/src/peft/tuners/lora/dora.py: DoraLinearLayer,       *)
(* DoraEmbeddingLayer and DoraConv2dLayer.                                 *)
(*                                                                         *)
(* Numbers.  A tensor element is a rational <<n, d>> in lowest terms with  *)
(* d > 0; d = 0 encodes the IEEE specials (<<1,0>> = +inf, <<-1,0>> =      *)
(* -inf, <<0,0>> = NaN).  Arithmetic is exact except where the code        *)
(* produces an irrational (the L2 norm) or casts (.half(), .to(dtype)):    *)
(* there the value is rounded to the significand width of the dtype.       *)
(* Tensors are records [shape, data] with data in row-major order, so      *)
(* view/reshape keep the data and transpose permutes it.                   *)
(*                                                                         *)
(* update_layer is modelled step by step (pc), with the errors its calls   *)
(* can raise; each forward is one step.  F.conv2d is kept as the call that *)
(* was made.  The low-rank factors have rank 1 and, like x, the dtype of   *)
(* the base layer.                                                         *)
(***************************************************************************)
EXTENDS Integers, Sequences, FiniteSets, TLC

\* ------------------------------------------------------------------ bounds
\* largest number of elements of a base weight
MaxNumel == 2
\* largest batch size of a forward input
MaxBatch == 2

\* ----------------------------------------------------------------- numbers
None == "None"

RECURSIVE Gcd(_, _)
Gcd(a, b) == IF b = 0 THEN a ELSE Gcd(b, a % b)

Abs(n) == IF n < 0 THEN -n ELSE n
Sgn(n) == IF n < 0 THEN -1 ELSE IF n = 0 THEN 0 ELSE 1

\* n/d in lowest terms, d # 0
Q(n, d) ==
    LET g == Gcd(Abs(n), Abs(d))
        s == IF d < 0 THEN -1 ELSE 1
    IN  <<s * (n \div g), s * (d \div g)>>

I(k) == <<k, 1>>
NaN == <<0, 0>>
Inf(s) == <<s, 0>>
IsFinite(a) == a[2] # 0
IsNaN(a) == a = NaN

RAdd(a, b) ==
    IF IsFinite(a) /\ IsFinite(b) THEN Q(a[1] * b[2] + b[1] * a[2], a[2] * b[2])
    ELSE IF IsNaN(a) \/ IsNaN(b) THEN NaN
    ELSE IF IsFinite(a) THEN b
    ELSE IF IsFinite(b) THEN a
    ELSE IF a = b THEN a ELSE NaN

RNeg(a) == <<-a[1], a[2]>>
RSub(a, b) == RAdd(a, RNeg(b))

RMul(a, b) ==
    IF IsFinite(a) /\ IsFinite(b)
    THEN LET g1 == Gcd(Abs(a[1]), b[2])
             g2 == Gcd(Abs(b[1]), a[2])
         IN  <<(a[1] \div g1) * (b[1] \div g2), (a[2] \div g2) * (b[2] \div g1)>>
    ELSE IF IsNaN(a) \/ IsNaN(b) THEN NaN
    ELSE IF Sgn(a[1]) * Sgn(b[1]) = 0 THEN NaN
    ELSE Inf(Sgn(a[1]) * Sgn(b[1]))

\* IEEE division: x/0 is +-inf, 0/0 is NaN, x/inf is 0; no error is raised
RDiv(a, b) ==
    IF IsNaN(a) \/ IsNaN(b) THEN NaN
    ELSE IF IsFinite(a) /\ IsFinite(b)
         THEN IF b[1] = 0
              THEN (IF a[1] = 0 THEN NaN ELSE Inf(Sgn(a[1])))
              ELSE RMul(a, Q(b[2], b[1]))
    ELSE IF IsFinite(a) THEN I(0)
    ELSE IF IsFinite(b) THEN Inf(Sgn(a[1]) * (IF b[1] < 0 THEN -1 ELSE 1))
    ELSE NaN

Pow2(k) == 2 ^ k

\* a positive rational n/d rounded to p significant bits (round half up)
RECURSIVE RoundPos(_, _, _)
RoundPos(n, d, p) ==
    IF n >= Pow2(p) * d THEN RMul(I(2), RoundPos(n, 2 * d, p))
    ELSE IF n < Pow2(p - 1) * d THEN RMul(Q(1, 2), RoundPos(2 * n, d, p))
    ELSE I((2 * n + d) \div (2 * d))

RoundSig(a, p) ==
    IF ~IsFinite(a) \/ a[1] = 0 THEN a
    ELSE LET r == RoundPos(Abs(a[1]), a[2], p) IN <<Sgn(a[1]) * r[1], r[2]>>

\* floor of the square root of the rational n/d, by bisection on lo..hi
RECURSIVE FloorSqrt(_, _, _, _)
FloorSqrt(n, d, lo, hi) ==
    IF lo >= hi THEN lo
    ELSE LET mid == (lo + hi + 1) \div 2
         IN  IF mid * mid * d <= n THEN FloorSqrt(n, d, mid, hi)
             ELSE FloorSqrt(n, d, lo, mid - 1)

\* sqrt(n/d), n/d > 0, rounded to nearest with p significant bits
RECURSIVE SqrtPos(_, _, _)
SqrtPos(n, d, p) ==
    IF n >= Pow2(2 * p) * d THEN RMul(I(2), SqrtPos(n, 4 * d, p))
    ELSE IF n < Pow2(2 * p - 2) * d THEN RMul(Q(1, 2), SqrtPos(4 * n, d, p))
    ELSE LET m == FloorSqrt(n, d, Pow2(p - 1), Pow2(p))
         IN  IF (2 * m + 1) * (2 * m + 1) * d <= 4 * n THEN I(m + 1) ELSE I(m)

RSqrt(a, p) ==
    IF IsNaN(a) THEN NaN
    ELSE IF ~IsFinite(a) THEN (IF a[1] > 0 THEN a ELSE NaN)
    ELSE IF a[1] = 0 THEN I(0)
    ELSE IF a[1] < 0 THEN NaN
    ELSE SqrtPos(a[1], a[2], p)

\* ----------------------------------------------------------------- tensors
RECURSIVE Prod(_)
Prod(s) == IF Len(s) = 0 THEN 1 ELSE Head(s) * Prod(Tail(s))

RECURSIVE RSum(_)
RSum(s) == IF Len(s) = 0 THEN I(0) ELSE RAdd(Head(s), RSum(Tail(s)))

Numel(shape) == Prod(shape)

\* a failed tensor operation, and an absent value; records, as tensors are
ShapeError == [error |-> "RuntimeError: shape mismatch"]
NoTensor == [none |-> TRUE]
IsTensor(v) == "data" \in DOMAIN v
Tensor(shape, data) == [shape |-> shape, data |-> data]

\* row-major strides, and the 0-based flat position of a 0-based index
Stride(shape, i) == Prod(SubSeq(shape, i + 1, Len(shape)))
Unravel(k, shape) == [i \in 1..Len(shape) |-> (k \div Stride(shape, i)) % shape[i]]
Ravel(idx, shape) == LET term[i \in 0..Len(shape)] ==
                             IF i = 0 THEN 0 ELSE term[i - 1] + idx[i] * Stride(shape, i)
                     IN  term[Len(shape)]

At(t, idx) == t.data[Ravel(idx, t.shape) + 1]

\* Tensor.view / Tensor.reshape on contiguous data: same elements, new shape
Reshape(t, shape) ==
    IF ~IsTensor(t) THEN t
    ELSE IF Numel(shape) # Len(t.data) THEN ShapeError
    ELSE Tensor(shape, t.data)

Swap01(s) == [i \in 1..Len(s) |-> IF i = 1 THEN s[2] ELSE IF i = 2 THEN s[1] ELSE s[i]]

\* Tensor.transpose(0, 1), materialised in row-major order
Transpose01(t) ==
    LET ns == Swap01(t.shape)
    IN  Tensor(ns, [k \in 1..Numel(ns) |-> At(t, Swap01(Unravel(k - 1, ns)))])

\* element-wise op of a tensor and a Python scalar
MapT(Op(_), t) ==
    IF ~IsTensor(t) THEN t
    ELSE Tensor(t.shape, [k \in 1..Len(t.data) |-> Op(t.data[k])])
Scale(t, c) == LET M(e) == RMul(e, c) IN MapT(M, t)
AddScalar(t, c) == LET A(e) == RAdd(e, c) IN MapT(A, t)
Cast(t, bits) == LET R(e) == RoundSig(e, bits) IN MapT(R, t)

\* broadcasting of two shapes of the same rank
Broadcastable(s1, s2) ==
    /\ Len(s1) = Len(s2)
    /\ \A i \in 1..Len(s1) : s1[i] = s2[i] \/ s1[i] = 1 \/ s2[i] = 1
BShape(s1, s2) == [i \in 1..Len(s1) |-> IF s1[i] = 1 THEN s2[i] ELSE s1[i]]
Clip(idx, shape) == [i \in 1..Len(shape) |-> IF shape[i] = 1 THEN 0 ELSE idx[i]]


Zip(Op(_, _), a, b) ==
    IF ~IsTensor(a) \/ ~IsTensor(b) THEN ShapeError
    ELSE IF ~Broadcastable(a.shape, b.shape) THEN ShapeError
    ELSE LET s == BShape(a.shape, b.shape)
         IN  Tensor(s, [k \in 1..Numel(s) |->
                 LET idx == Unravel(k - 1, s)
                 IN  Op(At(a, Clip(idx, a.shape)), At(b, Clip(idx, b.shape)))])

TAdd(a, b) == Zip(RAdd, a, b)
TMul(a, b) == Zip(RMul, a, b)
TDiv(a, b) == Zip(RDiv, a, b)

\* a @ b for 2-D tensors
MatMul(a, b) ==
    IF ~IsTensor(a) \/ ~IsTensor(b) THEN ShapeError
    ELSE IF a.shape[2] # b.shape[1] THEN ShapeError
    ELSE LET n == a.shape[1]
             m == b.shape[2]
             c == a.shape[2]
         IN  Tensor(<<n, m>>, [k \in 1..(n * m) |->
                 LET i == (k - 1) \div m
                     j == (k - 1) % m
                 IN  RSum([l \in 1..c |-> RMul(At(a, <<i, l - 1>>), At(b, <<l - 1, j>>))])])

\* torch.norm(t, dim=1, keepdim=True) of a 2-D tensor, in a dtype of `bits` bits
NormDim1(t, bits) ==
    LET n == t.shape[1]
        m == t.shape[2]
    IN  Tensor(<<n, 1>>, [k \in 1..n |->
            RSqrt(RSum([j \in 1..m |-> LET e == At(t, <<k - 1, j - 1>>) IN RMul(e, e)]),
                  bits)])

AllFinite(t) == IsTensor(t) /\ \A k \in 1..Len(t.data) : IsFinite(t.data[k])

\* ------------------------------------------------------------------ dtypes
Dtypes == {"bfloat16", "float16"}
\* significand width of a dtype, and torch.finfo(dtype).eps
Bits(dt) == IF dt = "float16" THEN 11 ELSE 8
EpsOf(dt) == Q(1, Pow2(Bits(dt) - 1))

\* ------------------------------------------------------------- base layers
WVals == {0, 3, 4}

Shapes2 == {s \in (1..MaxNumel) \X (1..MaxNumel) : Numel(s) <= MaxNumel}
Shapes4 == {s \in (1..MaxNumel) \X (1..MaxNumel) \X (1..MaxNumel) \X (1..MaxNumel) :
               Numel(s) <= MaxNumel}

WeightsOf(shape) ==
    {Tensor(shape, [k \in 1..Numel(shape) |-> I(d[k])]) : d \in [1..Numel(shape) -> WVals]}

\* stride, padding, dilation, groups and bias of a convolution
ConvAttrs(w) ==
    {[stride |-> 1, padding |-> 0, dilation |-> 1, groups |-> 1, bias |-> NoTensor],
     [stride |-> 2, padding |-> 1, dilation |-> 3,
      groups |-> IF w.shape[1] % 2 = 0 THEN 2 ELSE 1,
      bias |-> Tensor(<<w.shape[1]>>, [k \in 1..w.shape[1] |-> I(k)])]}

NoQuant == [none |-> TRUE]
NoConv == [none |-> TRUE]

\* bnb packs two 4-bit values per byte into a (n, 1) uint8 parameter
PackedShape(shape) == <<(Numel(shape) + 1) \div 2, 1>>

BaseLayer(cls, w, pshape, qs, bias, conv, dt) ==
    [cls |-> cls, weight |-> w, param_shape |-> pshape, quant_state |-> qs,
     bias |-> bias, conv |-> conv, dtype |-> dt]

LinearLayers ==
    {BaseLayer("Linear", w, w.shape, NoQuant, b, NoConv, dt) :
        w \in UNION {WeightsOf(s) : s \in Shapes2}, b \in {NoTensor}, dt \in Dtypes}

Linear4bitLayers ==
    UNION {{BaseLayer("Linear4bit", w, PackedShape(w.shape), [shape |-> w.shape],
                      NoTensor, NoConv, dt),
            BaseLayer("Linear4bit", w, w.shape, NoQuant, NoTensor, NoConv, dt)} :
        w \in UNION {WeightsOf(s) : s \in Shapes2}, dt \in Dtypes}

EmbeddingLayers ==
    {BaseLayer("Embedding", w, w.shape, NoQuant, NoTensor, NoConv, dt) :
        w \in UNION {WeightsOf(s) : s \in Shapes2}, dt \in Dtypes}

Conv2dLayers ==
    UNION {{BaseLayer("Conv2d", w, w.shape, NoQuant, c.bias,
                      [stride |-> c.stride, padding |-> c.padding,
                       dilation |-> c.dilation, groups |-> c.groups], dt) :
               c \in ConvAttrs(w)} :
        w \in UNION {WeightsOf(s) : s \in Shapes4}, dt \in Dtypes}

\* ------------------------------------------------- external collaborators
\* peft.utils.integrations.dequantize_module_weight: the materialised weight
Dequantize(module) == module.weight

\* peft.utils.other.transpose: weight.T when fan_in_fan_out
Transpose(weight, fan) == IF fan THEN Transpose01(weight) ELSE weight

\* peft.utils.integrations.gather_params_ctx: entering gathers the parameters
GatherEnter(held) == TRUE

\* ------------------------------------------------------------ the layer
VARIABLES
    fan_in_fan_out,  \* self.fan_in_fan_out
    base,            \* the wrapped base layer
    self_shape,      \* self.shape
    dora_num_dims,   \* self.dora_num_dims
    magnitude,       \* self.weight
    pc,              \* position of update_layer
    gathered,        \* the gather scope is held
    reads,           \* reads of the base weight made by update_layer
    local,           \* locals of the running update_layer
    err,             \* the error update_layer propagated
    out              \* what the last forward call computed

vars == <<fan_in_fan_out, base, self_shape, dora_num_dims, magnitude, pc, gathered,
          reads, local, err, out>>

self_state == <<fan_in_fan_out, self_shape, dora_num_dims, magnitude>>

NoLocal == [none |-> TRUE]
NoOut == [op |-> "none"]
NoErr == [none |-> TRUE]

\* DoraLinearLayer.__init__, for each of the three classes and its base layer
Init ==
    /\ \/ base \in LinearLayers /\ fan_in_fan_out \in BOOLEAN
       \/ base \in Linear4bitLayers /\ fan_in_fan_out = FALSE
       \/ base \in EmbeddingLayers /\ fan_in_fan_out \in BOOLEAN
       \/ base \in Conv2dLayers /\ fan_in_fan_out = FALSE
    /\ self_shape = <<>>
    /\ dora_num_dims = -1
    /\ magnitude = NoTensor
    /\ pc = "new"
    /\ gathered = FALSE
    /\ reads = {}
    /\ local = NoLocal
    /\ err = NoErr
    /\ out = NoOut

Kind == IF base.cls = "Embedding" THEN "embedding"
        ELSE IF base.cls = "Conv2d" THEN "conv" ELSE "dense"

\* DoraLinearLayer.get_weight_shape
get_weight_shape(module) ==
    IF module.cls = "Linear4bit"
    THEN IF module.quant_state # NoQuant THEN module.quant_state.shape
         ELSE module.param_shape
    ELSE module.param_shape

\* DoraLinearLayer.make_weight
make_weight(A, B, shape) ==
    LET W == MatMul(Reshape(B, <<B.shape[1], Numel(B.shape) \div B.shape[1]>>),
                    Reshape(A, <<A.shape[1], Numel(A.shape) \div A.shape[1]>>))
    IN  Reshape(W, shape)

Ones(n) == [i \in 1..n |-> 1]

\* the norm taken along dim 1 of the weight as it is: one norm per index of axis 0
InitNormPerAxis0(weight, bits) ==
    LET d0 == weight.shape[1]
        nd == Len(weight.shape) - 1
        flat == Reshape(weight, <<d0, Numel(weight.shape) \div d0>>)
    IN  Reshape(NormDim1(flat, bits), <<d0>> \o Ones(nd))

\* the norm expression without its closing transpose(1, 0)
InitNormNotTransposedBack(weight, bits) ==
    LET d1 == weight.shape[2]
        nd == Len(weight.shape) - 1
        flat == Reshape(Transpose01(weight), <<d1, Numel(weight.shape) \div d1>>)
    IN  Reshape(NormDim1(flat, bits), <<d1>> \o Ones(nd))

\* the norm expression of update_layer: one L2 norm per index of axis 1
InitNorm(weight, bits) ==
    LET d1 == weight.shape[2]
        nd == Len(weight.shape) - 1
        flat == Reshape(Transpose01(weight), <<d1, Numel(weight.shape) \div d1>>)
    IN  Transpose01(Reshape(NormDim1(flat, bits), <<d1>> \o Ones(nd)))

\* Tensor.half()
Half(t) == Cast(t, Bits("float16"))

\* enter and exit called by hand, the exit skipped when the body raises
LeaveScopeNoFinally(held, raising) == IF raising THEN held ELSE FALSE

\* the scope of `with gather_params_ctx(...)` is left, normally or by an error
LeaveScope(held, raising) == FALSE

\* ------------------------------------------------------------ update_layer
Raise(e, at) ==
    /\ pc' = "failed"
    /\ err' = [type |-> e, at |-> at]
    /\ local' = NoLocal

\* the call, and the fp16 upcast of the factors
UpdateLayerCall ==
    /\ pc = "new"
    /\ \E lora_dtype \in Dtypes :
          local' = [dtype_is_fp16 |-> (lora_dtype = "float16"), layer |-> "base_layer",
                    weight_norm |-> NoTensor]
    /\ pc' = "get_shape"
    /\ UNCHANGED <<fan_in_fan_out, base, self_shape, dora_num_dims, magnitude, gathered,
                   reads, err, out>>

\* self.shape = self.get_weight_shape(base_layer)
UpdateLayerShape ==
    /\ pc = "get_shape"
    /\ \/ /\ self_shape' = get_weight_shape(base)
          /\ reads' = reads \cup {[attr |-> "weight.shape", gathered |-> gathered]}
          /\ pc' = "enter"
          /\ UNCHANGED <<local, err>>
       \/ /\ Raise("ImportError", "get_shape")
          /\ UNCHANGED <<self_shape, reads>>
    /\ UNCHANGED <<fan_in_fan_out, base, dora_num_dims, magnitude, gathered, out>>

\* with gather_params_ctx(base_layer.parameters()):
UpdateLayerEnter ==
    /\ pc = "enter"
    /\ \/ /\ gathered' = GatherEnter(gathered)
          /\ pc' = IF base.cls = "Linear4bit" THEN "deepcopy" ELSE "dequantize"
          /\ UNCHANGED <<local, err>>
       \/ /\ Raise("RuntimeError", "enter")
          /\ UNCHANGED gathered
    /\ UNCHANGED <<fan_in_fan_out, base, self_shape, dora_num_dims, magnitude, reads, out>>

\* base_layer = deepcopy(base_layer)
UpdateLayerDeepCopy ==
    /\ pc = "deepcopy"
    /\ \/ /\ local' = [local EXCEPT !.layer = "copy"]
          /\ pc' = "dequantize"
          /\ UNCHANGED <<gathered, err>>
       \/ /\ Raise("RuntimeError", "deepcopy")
          /\ gathered' = LeaveScope(gathered, TRUE)
    /\ UNCHANGED <<fan_in_fan_out, base, self_shape, dora_num_dims, magnitude, reads, out>>

\* weight = dequantize_module_weight(base_layer) ... weight_norm.half()
UpdateLayerNorm ==
    /\ pc = "dequantize"
    /\ \/ /\ LET weight == Transpose(Dequantize(base), fan_in_fan_out)
                 norm == InitNorm(weight, Bits(base.dtype))
             IN  /\ dora_num_dims' = Len(weight.shape) - 1
                 /\ local' = [local EXCEPT !.weight_norm =
                                 IF local.dtype_is_fp16 THEN Half(norm) ELSE norm]
          /\ reads' = reads \cup {[attr |-> "weight", gathered |-> gathered]}
          /\ pc' = "exit"
          /\ UNCHANGED <<gathered, err>>
       \/ /\ \E at \in {"dequantize", "norm"} : Raise("RuntimeError", at)
          /\ gathered' = LeaveScope(gathered, TRUE)
          /\ UNCHANGED <<dora_num_dims, reads>>
    /\ UNCHANGED <<fan_in_fan_out, base, self_shape, magnitude, out>>

\* the end of the with block
UpdateLayerExit ==
    /\ pc = "exit"
    /\ gathered' = LeaveScope(gathered, FALSE)
    /\ pc' = "store"
    /\ UNCHANGED <<fan_in_fan_out, base, self_shape, dora_num_dims, magnitude, reads,
                   local, err, out>>

\* if place_on_cpu: ...; self.weight = nn.Parameter(weight_norm, requires_grad=True)
UpdateLayerStore ==
    /\ pc = "store"
    /\ \E place_on_cpu \in BOOLEAN :
          magnitude' = [shape |-> local.weight_norm.shape, data |-> local.weight_norm.data,
                        device |-> IF place_on_cpu THEN "cpu" ELSE "lora_A.device",
                        requires_grad |-> TRUE]
    /\ pc' = "ready"
    /\ local' = NoLocal
    /\ UNCHANGED <<fan_in_fan_out, base, self_shape, dora_num_dims, gathered, reads, err,
                   out>>

update_layer ==
    \/ UpdateLayerCall
    \/ UpdateLayerShape
    \/ UpdateLayerEnter
    \/ UpdateLayerDeepCopy
    \/ UpdateLayerNorm
    \/ UpdateLayerExit
    \/ UpdateLayerStore

\* ---------------------------------------------------------------- forward
\* the values a forward call is given
Scalings == {0, 1}
Fill(shape, pat) ==
    Tensor(shape, [k \in 1..Numel(shape) |-> IF pat = "ones" THEN I(1) ELSE I(k)])

W0 == base.weight
\* lora_A.weight and lora_B.weight of rank 1, shaped for the base layer
LoraA(pat) ==
    IF Kind = "conv" THEN Fill(<<1, W0.shape[2], W0.shape[3], W0.shape[4]>>, pat)
    ELSE IF Kind = "embedding" THEN Fill(<<1, W0.shape[1]>>, pat)
    ELSE Fill(<<1, IF fan_in_fan_out THEN W0.shape[1] ELSE W0.shape[2]>>, pat)
LoraB(pat) ==
    IF Kind = "conv" THEN Fill(<<W0.shape[1], 1, 1, 1>>, pat)
    ELSE IF Kind = "embedding" THEN Fill(<<W0.shape[2], 1>>, pat)
    ELSE Fill(<<IF fan_in_fan_out THEN W0.shape[2] ELSE W0.shape[1], 1>>, pat)

\* autograd: the trainable leaves a value depends on; detach() cuts them all
MagnitudeDeps == IF magnitude.requires_grad THEN {"magnitude"} ELSE {}
LoraDeps == {"lora_A", "lora_B"}
DetachNothing(deps) == deps
Detach(deps) == {}

\* weight += lora_weight * scaling, in place: the left operand holds the sum
ComposeWeightInPlace(weight, lora_weight, scaling) ==
    [value |-> TAdd(weight, Scale(lora_weight, I(scaling))),
     operand |-> TAdd(weight, Scale(lora_weight, I(scaling)))]

\* weight + lora_weight * scaling, out of place: the left operand is not written
ComposeWeight(weight, lora_weight, scaling) ==
    [value |-> TAdd(weight, Scale(lora_weight, I(scaling))), operand |-> weight]

\* F.linear(x, W) without bias
Linear(x, W) == MatMul(x, Transpose01(W))

\* the detached norm of the embedding and convolution forward, eps added
ForwardNorm(weight_norm, num_dims, dt) ==
    LET d1 == weight_norm.shape[2]
        flat == Reshape(Transpose01(weight_norm), <<d1, Numel(weight_norm.shape) \div d1>>)
        n == Transpose01(Reshape(NormDim1(flat, Bits(dt)), <<d1>> \o Ones(num_dims)))
    IN  AddScalar(n, EpsOf(dt))

\* DoraLinearLayer.forward; x has the dtype of the base layer, and the local weight
\* is the base layer's own tensor unless an operation wrote to it
DenseForward(x, A, B, scaling) ==
    LET lora_result == Linear(Linear(x, A), B)
        weight == Cast(Dequantize(base), Bits(base.dtype))
        composed == ComposeWeight(weight, make_weight(A, B, self_shape), scaling)
        weight_norm == composed.value
        bb == TDiv(magnitude, weight_norm)
        mag_norm_scale ==
            IF IsTensor(bb)
            THEN Reshape(bb, <<Numel(bb.shape) \div weight.shape[1], weight.shape[1]>>)
            ELSE bb
        base_result == Linear(x, Transpose(weight, fan_in_fan_out))
        result_dora == TAdd(TMul(AddScalar(mag_norm_scale, I(-1)), base_result),
                            Scale(TMul(mag_norm_scale, lora_result), I(scaling)))
    IN  [base_weight |-> IF composed.operand = weight THEN base.weight ELSE composed.operand,
         out |->
        [op |-> "dense", x |-> x, scaling |-> scaling, composed |-> composed.value,
         divisor |-> weight_norm, eps |-> I(0),
         denom_deps |-> Detach(LoraDeps),
         scale_deps |-> MagnitudeDeps \cup Detach(LoraDeps),
         result_deps |-> MagnitudeDeps \cup Detach(LoraDeps) \cup LoraDeps,
         scale |-> mag_norm_scale,
         calls |-> <<[fn |-> "linear", x |-> x, weight |-> Transpose(weight, fan_in_fan_out),
                      bias |-> NoTensor]>>,
         result |-> result_dora]]

\* DoraEmbeddingLayer.forward; embed_fn(x, lora_A) looks the rows x up in lora_A^T
EmbeddingForward(x, A, B, scaling) ==
    LET lora_weight == make_weight(A, B, self_shape)
        composed == ComposeWeight(base.weight, lora_weight, scaling)
        weight_norm == composed.value
        eps == EpsOf(base.dtype)
        norm == IF IsTensor(weight_norm)
                THEN ForwardNorm(weight_norm, dora_num_dims, base.dtype)
                ELSE weight_norm
        mag_norm_scale == TDiv(magnitude, norm)
        after_A == Tensor(<<Len(x.data), 1>>,
                          [b \in 1..Len(x.data) |-> A.data[x.data[b] + 1]])
        result_dora == Scale(TMul(mag_norm_scale, MatMul(after_A, Transpose01(B))),
                             I(scaling))
    IN  [base_weight |-> composed.operand, out |->
        [op |-> "embedding", x |-> x, scaling |-> scaling, composed |-> composed.value,
         divisor |-> norm, eps |-> eps,
         denom_deps |-> Detach(LoraDeps),
         scale_deps |-> MagnitudeDeps \cup Detach(LoraDeps),
         result_deps |-> MagnitudeDeps \cup Detach(LoraDeps) \cup LoraDeps,
         scale |-> mag_norm_scale,
         calls |-> <<>>,
         result |-> result_dora]]

\* DoraConv2dLayer.forward; F.conv2d is kept as the call that was made
ConvForward(x, A, B, scaling) ==
    LET lora_weight == make_weight(A, B, self_shape)
        composed == ComposeWeight(base.weight, lora_weight, scaling)
        weight_norm == composed.value
        eps == EpsOf(base.dtype)
        norm == IF IsTensor(weight_norm)
                THEN ForwardNorm(weight_norm, dora_num_dims, base.dtype)
                ELSE weight_norm
        scaled == TMul(magnitude, TDiv(weight_norm, norm))
        call == [fn |-> "conv2d", x |-> x, weight |-> scaled, bias |-> NoTensor,
                 stride |-> base.conv.stride, padding |-> base.conv.padding,
                 dilation |-> base.conv.dilation, groups |-> base.conv.groups]
    IN  [base_weight |-> composed.operand, out |->
        [op |-> "conv", x |-> x, scaling |-> scaling, composed |-> composed.value,
         divisor |-> norm, eps |-> eps,
         denom_deps |-> Detach(LoraDeps),
         scale_deps |-> MagnitudeDeps \cup Detach(LoraDeps),
         result_deps |-> MagnitudeDeps \cup Detach(LoraDeps) \cup LoraDeps,
         scale |-> TDiv(magnitude, norm),
         calls |-> <<call>>,
         result |-> scaled]]

\* the input of a forward call for the layer's kind
Inputs(batch) ==
    IF Kind = "conv"
    THEN Fill(<<batch, W0.shape[2] * base.conv.groups, W0.shape[3], W0.shape[4]>>, "ramp")
    ELSE IF Kind = "embedding"
    THEN [shape |-> <<batch>>, data |-> [b \in 1..batch |-> (b - 1) % W0.shape[1]]]
    ELSE Fill(<<batch, IF fan_in_fan_out THEN W0.shape[1] ELSE W0.shape[2]>>, "ramp")

\* what a forward call leaves behind: its result, and the state it ran on
Return(o) ==
    /\ out' = o.out
    /\ base' = [base EXCEPT !.weight = o.base_weight]
    /\ UNCHANGED <<fan_in_fan_out, self_shape, dora_num_dims, magnitude, pc, gathered,
                   reads, local, err>>

ForwardDense ==
    /\ pc = "ready"
    /\ Kind = "dense"
    /\ \E batch \in 1..MaxBatch, scaling \in Scalings :
          Return(DenseForward(Inputs(batch), LoraA("ramp"), LoraB("ramp"), scaling))

ForwardEmbedding ==
    /\ pc = "ready"
    /\ Kind = "embedding"
    /\ \E batch \in 1..MaxBatch, scaling \in Scalings :
          Return(EmbeddingForward(Inputs(batch), LoraA("ramp"), LoraB("ramp"), scaling))

ForwardConv ==
    /\ pc = "ready"
    /\ Kind = "conv"
    /\ \E batch \in 1..MaxBatch, scaling \in Scalings :
          Return(ConvForward(Inputs(batch), LoraA("ramp"), LoraB("ramp"), scaling))

\* forward before update_layer: self.weight and self.shape are not set yet
ForwardUninitialised ==
    /\ pc = "new"
    /\ out = NoOut
    /\ out' = [op |-> "raised", kind |-> Kind,
               result |-> [error |-> IF Kind = "dense" THEN "AttributeError" ELSE "TypeError"]]
    /\ UNCHANGED <<fan_in_fan_out, base, self_shape, dora_num_dims, magnitude, pc,
                   gathered, reads, local, err>>

Next ==
    \/ update_layer
    \/ ForwardDense
    \/ ForwardEmbedding
    \/ ForwardConv
    \/ ForwardUninitialised

Spec == Init /\ [][Next]_vars

\* ------------------------------------------------------------------ claims
\* the base weight with the output axis first, as update_layer sees it
Oriented == Transpose(base.weight, fan_in_fan_out)

\* sum of the squares of the entries of t whose index along `axis` is i (0-based)
SumSqAxis(t, axis, i) ==
    RSum([k \in 1..Numel(t.shape) |->
            IF Unravel(k - 1, t.shape)[axis] = i THEN RMul(t.data[k], t.data[k]) ELSE I(0)])

\* m is the L2 norm whose square is sq, to the tolerance of a 16-bit float
IsNorm(m, sq) ==
    /\ IsFinite(m) /\ IsFinite(sq)
    /\ m[1] >= 0
    /\ 64 * Abs(m[1] * m[1] * sq[2] - sq[1] * m[2] * m[2]) <= sq[1] * m[2] * m[2]

Initialised == pc = "ready"
Forwarded == pc = "ready" /\ out.op \in {"dense", "embedding", "conv"}

OutChannels == IF Kind = "embedding" THEN base.weight.shape[2] ELSE Oriented.shape[1]

ZerosLike(t) == Tensor(t.shape, [k \in 1..Len(t.data) |-> I(0)])

\* C3: a dense forward with scaling = 0 on a freshly initialised magnitude gives the
\* plain base output x @ W^T (read as the layer's output, or as a zero correction
\* added to the base output).
C3_ZeroScalingIsBaseOutput ==
    (Forwarded /\ out.op = "dense" /\ out.scaling = 0) =>
        LET plain == Linear(out.x, Oriented)
        IN  out.result = plain \/ out.result = ZerosLike(plain)

\* the divisor is a per-channel norm of the composed weight plus eps: it is
\* singleton along every axis but one, and each entry less eps is the norm of
\* the composed weight's entries of that channel
DivisorIsChannelNorm(o) ==
    /\ IsTensor(o.divisor) /\ IsTensor(o.composed)
    /\ o.eps[1] > 0
    /\ \E c \in 1..Len(o.composed.shape) :
          /\ Len(o.divisor.shape) = Len(o.composed.shape)
          /\ \A a \in 1..Len(o.divisor.shape) :
                o.divisor.shape[a] = IF a = c THEN o.composed.shape[c] ELSE 1
          /\ \A i \in 1..o.composed.shape[c] :
                IsNorm(RSub(o.divisor.data[i], o.eps), SumSqAxis(o.composed, c, i - 1))

\* C4: in every forward variant the scale is magnitude / (per-channel norm of the
\* composed weight + eps), and the dense result is scale * linear(x, composedWeight).
C4_ScaleDividesByNormPlusEps ==
    Forwarded =>
        /\ DivisorIsChannelNorm(out)
        /\ out.scale = TDiv(magnitude, out.divisor)
        /\ out.op = "dense" =>
              out.result = TMul(out.scale, Linear(out.x, Transpose(out.composed, fan_in_fan_out)))

HasZero(t) == IsTensor(t) /\ \E k \in 1..Len(t.data) : t.data[k] = I(0)

\* C5: when the composed weight has a zero entry, every divisor of the scale is
\* strictly positive and the forward call completes with a finite result.
C5_NoDivisionByZero ==
    (Forwarded /\ HasZero(out.composed)) =>
        /\ IsTensor(out.divisor)
        /\ \A k \in 1..Len(out.divisor.data) :
              IsFinite(out.divisor.data[k]) /\ out.divisor.data[k][1] > 0
        /\ AllFinite(out.result)

\* C6: in every forward variant the divisor of the scale depends on neither lora_A nor
\* lora_B, the scale depends on the magnitude only, and the factors reach the result
\* through the numerator path.
C6_NormIsDetached ==
    Forwarded =>
        /\ out.denom_deps \cap {"lora_A", "lora_B"} = {}
        /\ out.scale_deps = {"magnitude"}
        /\ {"lora_A", "lora_B"} \subseteq out.result_deps

C6_Witness ==
    /\ Forwarded /\ out.op = "conv" /\ out.scaling = 1
    /\ out.composed # base.weight
    /\ out.denom_deps = {}

\* C7: every read update_layer makes of the base weight happens inside the gather scope.
C7_ReadsInsideScope == \A r \in reads : r.gathered

\* C8: once update_layer has left the with block, by its end or by an error raised
\* inside it, the gather scope is no longer held; the error raised is the one the
\* caller sees and no magnitude is stored.
C8_ScopeReleased ==
    /\ pc \in {"store", "ready", "failed"} => ~gathered
    /\ pc = "failed" => (err # NoErr /\ magnitude = NoTensor)
    /\ pc # "failed" => err = NoErr

C8_Witness ==
    /\ pc = "failed"
    /\ err.at \in {"deepcopy", "dequantize", "norm"}
    /\ ~gathered

\* C9: the convolution forward calls conv2d once, with magnitude * composed / norm and
\* with the base layer's bias, stride, padding, dilation and groups.
C9_ConvCallArguments ==
    (Forwarded /\ out.op = "conv") =>
        /\ Len(out.calls) = 1
        /\ out.calls[1].fn = "conv2d"
        /\ out.calls[1].weight = TMul(magnitude, TDiv(out.composed, out.divisor))
        /\ out.calls[1].bias = base.bias
        /\ out.calls[1].stride = base.conv.stride
        /\ out.calls[1].padding = base.conv.padding
        /\ out.calls[1].dilation = base.conv.dilation
        /\ out.calls[1].groups = base.conv.groups

\* C10: once update_layer has completed, no step (every one is a forward call) changes
\* self.shape, self.dora_num_dims, self.weight, self.fan_in_fan_out or the base layer.
C10_ForwardKeepsState ==
    [][Initialised => UNCHANGED <<self_state, base>>]_vars

C10_Witness ==
    /\ Forwarded /\ out.op = "embedding" /\ out.scaling = 1
    /\ IsTensor(out.composed) /\ out.composed # base.weight

====
